---- MODULE Spec2Model ----
(***************************************************************************)
(* Fax-document uploader: the six pipeline scripts of the repository       *)
(* (sent.js, received.js and the two unnamed parts; sent.js and part_000   *)
(* each hold two scripts).  A script scans pdf_files/, extracts and parses *)
(* each document, moves the file to processed/ or to the failed folder and *)
(* posts the records to the bulk-upload endpoint.                          *)
(***************************************************************************)
EXTENDS Integers, Sequences, FiniteSets, TLC

\* ------------------------------------------------------------------ bounds
MaxFiles == 2
MaxRecords == 4
MaxBatchSize == 3
MaxDigits == 11
\* bits of the significand that the model keeps of a JavaScript Number (53)
FloatBits == 8

\* the batch size main passes to batchUpload
DefaultBatchSize == 100

Files == 1..MaxFiles
Runs == {1, 2}

\* ---------------------------------------------------------------- variants
\* One name per script.
Variants ==
  {"SentDateOnly", "ReceivedList", "ReceivedSweep", "SentDateTime", "SentMinusDay", "ReceivedNoFailed"}

\* scripts whose prepareRecordsForUpload keeps a failedFiles list
HasFailedList(v) ==
  v \in {"SentDateOnly", "ReceivedList", "SentDateTime", "SentMinusDay"}

\* scripts whose main ends with a call of moveFailedFiles()
CallsMoveFailedFiles(v) ==
  v \in {"ReceivedList", "ReceivedSweep"}

\* scripts that define moveFailedFiles
DefinesMoveFailedFiles(v) ==
  v = "ReceivedSweep"

\* scripts that upload with batchUpload (the others use bulkUpload)
UsesBatchUpload(v) ==
  v \in {"SentDateOnly", "ReceivedList", "SentDateTime", "SentMinusDay"}

\* ------------------------------------------------------------------- values
\* JavaScript null; every other value is a tuple, "" is the empty tuple.
Null == <<"null">>

\* JavaScript truthiness of a string-or-null value
Truthy(x) ==
  x # Null /\ x # <<>>

\* ------------------------------------------------------------ field parsing
\* A document is a record of what pdf-parse and the patterns of parsePdfText
\* can find in it:
\*   pdf   : TRUE when pdf-parse gives a non-empty text
\*   exam  : Null or <<month, day, year>> after "Exam Date: "
\*   stamp : Null or <<month, day, year, hour, minute, period>>
\*   fax   : Null or <<label, digits>>, the first labelled number
\*   physInfo, physName : Null or the captured (trimmed) name

IsLeap(y) ==
  (y % 4 = 0 /\ y % 100 # 0) \/ y % 400 = 0

DaysInMonth(y, m) ==
  IF m = 2 THEN (IF IsLeap(y) THEN 29 ELSE 28)
  ELSE IF m \in {4, 6, 9, 11} THEN 30 ELSE 31

\* (a formatPhoneNumber whose middle group is slice(3, 7))
formatPhoneNumberLongGroup(phone) ==
  IF Len(phone) = 10
  THEN <<"(">> \o SubSeq(phone, 1, 3) \o <<")", " ">> \o SubSeq(phone, 4, 7)
         \o <<" ", "-", " ">> \o SubSeq(phone, 7, 10)
  ELSE phone

formatPhoneNumber(phone) ==
  IF Len(phone) = 10
  THEN <<"(">> \o SubSeq(phone, 1, 3) \o <<")", " ">> \o SubSeq(phone, 4, 6)
         \o <<" ", "-", " ">> \o SubSeq(phone, 7, 10)
  ELSE phone

\* JavaScript Numbers are binary floating-point values: a value is a whole
\* number of units of 2^-FloatBits, every result is rounded to FloatBits
\* significant bits, ties to even.
RECURSIVE Pow2(_)
Pow2(n) ==
  IF n = 0 THEN 1 ELSE 2 * Pow2(n - 1)

Unit == Pow2(FloatBits)

\* the spacing of the representable values around n units
RECURSIVE Ulp(_, _)
Ulp(n, q) ==
  IF n < q * Pow2(FloatBits) THEN q ELSE Ulp(n, 2 * q)

\* n units rounded to the nearest representable value, ties to even
Fl(n) ==
  LET q == Ulp(n, 1)
      lo == (n \div q) * q
      r == n - lo
  IN IF 2 * r < q THEN lo
     ELSE IF 2 * r > q THEN lo + q
     ELSE IF (n \div q) % 2 = 0 THEN lo ELSE lo + q

\* Math.random(): a Number in [0, 1), in units
Draws == 0..(Unit - 1)

startHour == 8
endHour == 17

\* Math.floor(Math.random() * (endHour - startHour) + startHour)
randomHour(u) ==
  Fl(Fl(u * (endHour - startHour)) + startHour * Unit) \div Unit

\* Math.floor(Math.random() * 60)
randomMinute(u) ==
  Fl(u * 60) \div Unit

getRandomTime(u1, u2, u3) ==
  <<randomHour(u1), randomMinute(u2), randomMinute(u3)>>

\* the draws of getRandomTime that the model follows: the smallest and the
\* largest values of Math.random()
RandomTimes ==
  {getRandomTime(0, 0, 0), getRandomTime(Unit - 1, Unit - 1, Unit - 1)}

\* 12-hour to 24-hour conversion
adjustedHour(hour, period) ==
  IF period = "PM" /\ hour # 12 THEN hour + 12
  ELSE IF period = "AM" /\ hour = 12 THEN 0
  ELSE hour

\* the year that new Date(year, ...) takes: 0..99 stand for 1900..1999
DateYear(y) ==
  IF y \in 0..99 THEN 1900 + y ELSE y

\* new Date(year, month, 0).getDate(): the last day of month (1..12)
lastDayOfMonth(year, month) ==
  DaysInMonth(DateYear(year), month)

\* sent.js: "Exam Date" minus one day, with the random time rnd
createdAtDateOnly(t, rnd) ==
  IF t.exam = Null THEN Null
  ELSE LET month == t.exam[1]
           day == t.exam[2] - 1
           year == t.exam[3]
           m1 == IF day <= 0 THEN month - 1 ELSE month
           y2 == IF day <= 0 /\ m1 <= 0 THEN year - 1 ELSE year
           m2 == IF day <= 0 /\ m1 <= 0 THEN 12 ELSE m1
           d2 == IF day <= 0 THEN lastDayOfMonth(y2, m2) ELSE day
       IN <<y2, m2, d2, rnd[1], rnd[2], rnd[3]>>

\* received.js, sent.js (second script), part_000 (first script)
createdAtDateTime(t) ==
  IF t.stamp = Null THEN Null
  ELSE <<t.stamp[3], t.stamp[1], t.stamp[2],
         adjustedHour(t.stamp[4], t.stamp[6]), t.stamp[5], 0>>

\* part_000 (second script): new Date(year, month - 1, day, adjustedHour,
\* minute), then setDate(getDate() - 1), in a time zone whose clock is not
\* changed on these days
createdAtMinusDay(t) ==
  IF t.stamp = Null THEN Null
  ELSE LET month == t.stamp[1]
           day == t.stamp[2]
           year == DateYear(t.stamp[3])
           pm == IF month = 1 THEN 12 ELSE month - 1
           py == IF month = 1 THEN year - 1 ELSE year
       IN IF day > 1
          THEN <<year, month, day - 1, adjustedHour(t.stamp[4], t.stamp[6]), t.stamp[5], 0>>
          ELSE <<py, pm, DaysInMonth(py, pm), adjustedHour(t.stamp[4], t.stamp[6]), t.stamp[5], 0>>

\* part_001: only a PM stamp matches; new Date(dateStr) does the conversion
createdAtPmOnly(t) ==
  IF t.stamp = Null \/ t.stamp[6] # "PM" THEN Null
  ELSE <<t.stamp[3], t.stamp[1], t.stamp[2],
         adjustedHour(t.stamp[4], "PM"), t.stamp[5], 0>>

createdAt(v, t, rnd) ==
  CASE v = "SentDateOnly" -> createdAtDateOnly(t, rnd)
    [] v = "SentMinusDay" -> createdAtMinusDay(t)
    [] v = "ReceivedNoFailed" -> createdAtPmOnly(t)
    [] OTHER -> createdAtDateTime(t)

\* /Fax:\s*([0-9-]+)/i : any number of digits is kept
faxLax(t) ==
  IF t.fax = Null \/ t.fax[1] # "Fax:" THEN Null
  ELSE formatPhoneNumber(t.fax[2])

\* /(?:Fax:|To:|FAX:|TO:)\s*([0-9\s\-]+)/i : only 10 digits are kept
faxStrict(t) ==
  IF t.fax = Null THEN Null
  ELSE IF Len(t.fax[2]) = 10 THEN formatPhoneNumber(t.fax[2]) ELSE Null

\* the extracted phone field: from in the Sent scripts and part_001, to in
\* received.js and the second script of sent.js
dynamicField(v, t) ==
  IF v \in {"ReceivedList", "ReceivedSweep"} THEN faxStrict(t) ELSE faxLax(t)

FixedSender == <<"RIGHT CHOICE MEDICAL SUPPLY">>

\* the fixed number: to in the Sent scripts and part_001, from in received.js
FixedNumber == <<"(207) 261 - 0798">>

sender(v, t) ==
  CASE v \in {"SentDateOnly", "SentDateTime", "SentMinusDay"} -> FixedSender
    [] v = "ReceivedList" -> t.physName
    [] OTHER -> IF t.physInfo # Null THEN t.physInfo ELSE t.physName

\* the record object before validation
candidate(v, t, rnd) ==
  [createdAt |-> createdAt(v, t, rnd), dyn |-> dynamicField(v, t), sender |-> sender(v, t),
   fixed |-> FixedNumber]

\* (a validation that forgets the sender)
isCompleteNoSender(rec) ==
  Truthy(rec.createdAt) /\ Truthy(rec.dyn)

\* the validation `if (record.createdAt && record.<phone> && record.sender)`
isComplete(rec) ==
  Truthy(rec.createdAt) /\ Truthy(rec.dyn) /\ Truthy(rec.sender)

\* the null that parsePdfText returns, as a record with no field
NullRecord ==
  [createdAt |-> Null, dyn |-> Null, sender |-> Null, fixed |-> Null]

\* parsePdfText: the record, or null when a required field is missing
parsePdfText(v, t, rnd) ==
  LET record == candidate(v, t, rnd)
  IN IF isComplete(record) THEN record ELSE NullRecord

\* what extractPdfText returns for an unreadable file: null (no text)
NoText ==
  [pdf |-> FALSE, exam |-> Null, stamp |-> Null, fax |-> Null, physInfo |-> Null, physName |-> Null]

\* extractPdfText: the text, when the file is still readable in pdf_files/
\* (here) and pdf-parse accepts it; otherwise the error is caught and the
\* result is null
extractPdfText(here, t) ==
  IF here /\ t.pdf THEN t ELSE NoText

\* ----------------------------------------------------------- sample texts
Digits10 == <<"2", "0", "7", "5", "5", "5", "1", "2", "3", "4">>
Digits7 == <<"5", "5", "5", "1", "2", "3", "4">>

DocFull ==
  [pdf |-> TRUE, exam |-> <<3, 15, 2024>>, stamp |-> <<3, 15, 2024, 2, 30, "PM">>,
   fax |-> <<"Fax:", Digits10>>, physInfo |-> <<"JOHN SMITH MD">>, physName |-> <<"JOHN SMITH">>]

DocNoFax ==
  [pdf |-> TRUE, exam |-> <<1, 1, 2024>>, stamp |-> <<1, 1, 2024, 12, 5, "PM">>,
   fax |-> Null, physInfo |-> Null, physName |-> <<"JANE DOE">>]

DocShortFax ==
  [pdf |-> TRUE, exam |-> <<3, 1, 2024>>, stamp |-> <<3, 1, 2024, 11, 0, "AM">>,
   fax |-> <<"Fax:", Digits7>>, physInfo |-> Null, physName |-> <<"JANE DOE">>]

DocNoSender ==
  [pdf |-> TRUE, exam |-> <<3, 15, 2024>>, stamp |-> <<3, 15, 2024, 9, 15, "PM">>,
   fax |-> <<"Fax:", Digits10>>, physInfo |-> Null, physName |-> Null]

\* the documents the pipeline model is run on; NoText is an unreadable PDF
SampleTexts ==
  {NoText, DocFull, DocNoFax, DocShortFax, DocNoSender}

\* -------------------------------------------------------------------- state
VARIABLES
  variant,        \* the script that is run
  text,           \* file -> its document
  loc,            \* file -> "incoming" | "processed" | "failed"
  batchSize,      \* the batchSize argument of batchUpload
  pc,             \* run -> position in main
  pdfFiles,       \* run -> the directory listing of main
  pos,            \* run -> index of the current file in pdfFiles
  cur,            \* run -> the record parsed from the current file
  records,        \* run -> the records array
  failedFiles,    \* run -> the failedFiles array
  fpos,           \* run -> index in failedFiles / remainingFiles
  remainingFiles, \* run -> the listing of moveFailedFiles
  upi,            \* run -> the loop variable i of batchUpload
  posted,         \* run -> the POST requests made, in order
  renames,        \* every fs.renameSync call made: [run, file, to, ok]
  overlap,        \* a run was started while another was running
  err             \* run -> the exception that main caught, or "none"

vars ==
  <<variant, text, loc, batchSize, pc, pdfFiles, pos, cur, records, failedFiles,
    fpos, remainingFiles, upi, posted, renames, overlap, err>>

\* the files of S in the order of readdirSync: by name
RECURSIVE Listing(_)
Listing(S) ==
  IF S = {} THEN <<>>
  ELSE LET f == CHOOSE x \in S : \A y \in S : x <= y
       IN <<f>> \o Listing(S \ {f})

Incoming ==
  {f \in DOMAIN loc : loc[f] = "incoming"}

Min(a, b) ==
  IF a <= b THEN a ELSE b

\* where main goes when it has nothing left to do before its last statement:
\* the second script of sent.js calls moveFailedFiles, which it does not
\* define, and main catches the ReferenceError
afterUpload(v) ==
  IF CallsMoveFailedFiles(v) /\ DefinesMoveFailedFiles(v) THEN "sweep" ELSE "done"

errAfterUpload(v) ==
  IF CallsMoveFailedFiles(v) /\ ~DefinesMoveFailedFiles(v) THEN "ReferenceError" ELSE "none"

\* (a main that uploads without testing recordsForUpload.length)
afterPrepareAlwaysUpload(v, recs) ==
  "upload"

\* main after prepareRecordsForUpload returned recs
afterPrepare(v, recs) ==
  IF Len(recs) > 0 THEN "upload" ELSE afterUpload(v)

\* (a first loop that is not followed by the loop over failedFiles)
afterLoopSkipFailed(v, recs, ff) ==
  afterPrepare(v, recs)

\* prepareRecordsForUpload after its first loop
afterLoop(v, recs, ff) ==
  IF HasFailedList(v) /\ Len(ff) > 0 THEN "failed" ELSE afterPrepare(v, recs)

\* run r moves to position p; reaching the end of main through the call of
\* an undefined moveFailedFiles is recorded as the caught error
Goto(r, p) ==
  /\ pc' = [pc EXCEPT ![r] = p]
  /\ err' = [err EXCEPT ![r] =
               IF p = "done" THEN errAfterUpload(variant) ELSE @]

TypeOK ==
  /\ variant \in Variants
  /\ \A f \in DOMAIN loc : loc[f] \in {"incoming", "processed", "failed"}
  /\ \A r \in Runs : pc[r] \in {"idle", "loop", "attach", "move", "failed", "upload", "sweep", "sweepmove", "done"}

InitRun ==
  /\ pc = [r \in Runs |-> "idle"]
  /\ pdfFiles = [r \in Runs |-> <<>>]
  /\ pos = [r \in Runs |-> 1]
  /\ cur = [r \in Runs |-> NullRecord]
  /\ records = [r \in Runs |-> <<>>]
  /\ failedFiles = [r \in Runs |-> <<>>]
  /\ fpos = [r \in Runs |-> 1]
  /\ remainingFiles = [r \in Runs |-> <<>>]
  /\ upi = [r \in Runs |-> 0]
  /\ posted = [r \in Runs |-> <<>>]
  /\ renames = {}
  /\ overlap = FALSE
  /\ err = [r \in Runs |-> "none"]

\* main is started with MaxFiles documents in pdf_files/
Init ==
  /\ variant \in Variants
  /\ text \in [Files -> SampleTexts]
  /\ loc = [f \in Files |-> "incoming"]
  /\ batchSize = DefaultBatchSize
  /\ InitRun

\* ------------------------------------------------------------------ actions
\* (a scan that lists processed/ and the failed folder as well)
mainScanEverywhere(r) ==
  /\ pc[r] = "idle"
  /\ pdfFiles' = [pdfFiles EXCEPT ![r] = Listing(DOMAIN loc)]
  /\ Goto(r, IF DOMAIN loc # {} THEN "loop" ELSE afterPrepare(variant, <<>>))
  /\ overlap' = (overlap \/ \E q \in Runs \ {r} : pc[q] \notin {"idle", "done"})
  /\ UNCHANGED <<variant, text, loc, batchSize, pos, cur, records, failedFiles,
                 fpos, remainingFiles, upi, posted, renames>>

\* main: fs.readdirSync(pdfFolder).filter(...)
mainScan(r) ==
  /\ pc[r] = "idle"
  /\ pdfFiles' = [pdfFiles EXCEPT ![r] = Listing(Incoming)]
  /\ Goto(r, IF Incoming # {} THEN "loop" ELSE afterPrepare(variant, <<>>))
  /\ overlap' = (overlap \/ \E q \in Runs \ {r} : pc[q] \notin {"idle", "done"})
  /\ UNCHANGED <<variant, text, loc, batchSize, pos, cur, records, failedFiles,
                 fpos, remainingFiles, upi, posted, renames>>

\* main: readdirSync throws, the catch of main logs it and the run ends
mainScanFail(r) ==
  /\ pc[r] = "idle"
  /\ pc' = [pc EXCEPT ![r] = "done"]
  /\ err' = [err EXCEPT ![r] = "scan"]
  /\ UNCHANGED <<variant, overlap, text, loc, batchSize, pdfFiles, pos, cur, records,
                 failedFiles, fpos, remainingFiles, upi, posted, renames>>

\* the loop of prepareRecordsForUpload moves on to the next file
NextFile(r, recs, ff) ==
  /\ pos' = [pos EXCEPT ![r] = @ + 1]
  /\ Goto(r, IF pos[r] < Len(pdfFiles[r]) THEN "loop" ELSE afterLoop(variant, recs, ff))

\* failedFiles.push(file), in the scripts that keep the list
pushFailed(r, f) ==
  IF HasFailedList(variant) THEN Append(failedFiles[r], f) ELSE failedFiles[r]

\* prepareRecordsForUpload: extractPdfText gave no text
loopExtractFail(r) ==
  /\ pc[r] = "loop"
  /\ LET f == pdfFiles[r][pos[r]]
         pdfText == extractPdfText(loc[f] = "incoming", text[f])
     IN /\ ~pdfText.pdf
        /\ failedFiles' = [failedFiles EXCEPT ![r] = pushFailed(r, f)]
        /\ NextFile(r, records[r], pushFailed(r, f))
  /\ UNCHANGED <<variant, overlap, text, loc, batchSize, pdfFiles, cur, records, fpos,
                 remainingFiles, upi, posted, renames>>

\* prepareRecordsForUpload: parsePdfText returned null
loopParseInvalid(r) ==
  /\ pc[r] = "loop"
  /\ LET f == pdfFiles[r][pos[r]]
         pdfText == extractPdfText(loc[f] = "incoming", text[f])
     IN /\ pdfText.pdf
        /\ \E rnd \in RandomTimes : parsePdfText(variant, pdfText, rnd) = NullRecord
        /\ failedFiles' = [failedFiles EXCEPT ![r] = pushFailed(r, f)]
        /\ NextFile(r, records[r], pushFailed(r, f))
  /\ UNCHANGED <<variant, overlap, text, loc, batchSize, pdfFiles, cur, records, fpos,
                 remainingFiles, upi, posted, renames>>

\* prepareRecordsForUpload: parsePdfText returned a record
loopParseValid(r) ==
  /\ pc[r] = "loop"
  /\ LET f == pdfFiles[r][pos[r]]
         pdfText == extractPdfText(loc[f] = "incoming", text[f])
     IN /\ pdfText.pdf
        /\ \E rnd \in RandomTimes :
             /\ parsePdfText(variant, pdfText, rnd) # NullRecord
             /\ cur' = [cur EXCEPT ![r] = parsePdfText(variant, pdfText, rnd)]
  /\ pc' = [pc EXCEPT ![r] = "attach"]
  /\ UNCHANGED <<variant, overlap, text, loc, batchSize, pdfFiles, pos, records, failedFiles,
                 fpos, remainingFiles, upi, posted, renames, err>>

\* fileToBase64 throws (the read fails, or the file is gone): nothing in
\* prepareRecordsForUpload catches it, so the catch of main ends the run
attachFail(r) ==
  /\ pc[r] = "attach"
  /\ pc' = [pc EXCEPT ![r] = "done"]
  /\ err' = [err EXCEPT ![r] = "attach"]
  /\ cur' = [cur EXCEPT ![r] = NullRecord]
  /\ UNCHANGED <<variant, overlap, text, loc, batchSize, pdfFiles, pos, records, failedFiles,
                 fpos, remainingFiles, upi, posted, renames>>

\* (a rename that succeeds for a file that is no longer in pdf_files/)
renameSyncAnywhere(r, f, to, ok) ==
  /\ loc' = IF ok THEN [loc EXCEPT ![f] = to] ELSE loc
  /\ renames' = renames \cup {[run |-> r, file |-> f, to |-> to, ok |-> ok]}

\* fs.renameSync(from pdf_files/, to): succeeds only for a file that is there
renameSync(r, f, to, ok) ==
  /\ ok => loc[f] = "incoming"
  /\ loc' = IF ok THEN [loc EXCEPT ![f] = to] ELSE loc
  /\ renames' = renames \cup {[run |-> r, file |-> f, to |-> to, ok |-> ok]}

\* (a loop that puts the record in front: records.unshift(record))
attachOkUnshift(r) ==
  /\ pc[r] = "attach"
  /\ loc[pdfFiles[r][pos[r]]] = "incoming"
  /\ records' = [records EXCEPT ![r] = <<[file |-> pdfFiles[r][pos[r]], rec |-> cur[r]]>> \o @]
  /\ cur' = [cur EXCEPT ![r] = NullRecord]
  /\ pc' = [pc EXCEPT ![r] = "move"]
  /\ UNCHANGED <<variant, overlap, text, loc, batchSize, pdfFiles, pos, failedFiles, fpos,
                 remainingFiles, upi, posted, renames, err>>

\* fileToBase64 returns: the record is given its attachment and pushed
attachOk(r) ==
  /\ pc[r] = "attach"
  /\ loc[pdfFiles[r][pos[r]]] = "incoming"
  /\ records' = [records EXCEPT ![r] = Append(@, [file |-> pdfFiles[r][pos[r]], rec |-> cur[r]])]
  /\ cur' = [cur EXCEPT ![r] = NullRecord]
  /\ pc' = [pc EXCEPT ![r] = "move"]
  /\ UNCHANGED <<variant, overlap, text, loc, batchSize, pdfFiles, pos, failedFiles, fpos,
                 remainingFiles, upi, posted, renames, err>>

\* the file is renamed into processed/ (ok), or the rename throws and the
\* error is caught and logged (~ok)
processedMove(r, ok) ==
  /\ pc[r] = "move"
  /\ renameSync(r, pdfFiles[r][pos[r]], "processed", ok)
  /\ NextFile(r, records[r], failedFiles[r])
  /\ UNCHANGED <<variant, overlap, text, batchSize, pdfFiles, cur, records, failedFiles, fpos,
                 remainingFiles, upi, posted>>

processedMoveOk(r) ==
  processedMove(r, TRUE)

processedMoveFail(r) ==
  processedMove(r, FALSE)

\* (a second loop that renames into processed/)
failedMoveToProcessed(r, ok) ==
  /\ pc[r] = "failed"
  /\ renameSync(r, failedFiles[r][fpos[r]], "processed", ok)
  /\ fpos' = [fpos EXCEPT ![r] = @ + 1]
  /\ Goto(r, IF fpos[r] < Len(failedFiles[r]) THEN "failed"
             ELSE afterPrepare(variant, records[r]))
  /\ UNCHANGED <<variant, overlap, text, batchSize, pdfFiles, pos, cur, records, failedFiles,
                 remainingFiles, upi, posted>>

\* the second loop of prepareRecordsForUpload, over failedFiles
failedMove(r, ok) ==
  /\ pc[r] = "failed"
  /\ renameSync(r, failedFiles[r][fpos[r]], "failed", ok)
  /\ fpos' = [fpos EXCEPT ![r] = @ + 1]
  /\ Goto(r, IF fpos[r] < Len(failedFiles[r]) THEN "failed"
             ELSE afterPrepare(variant, records[r]))
  /\ UNCHANGED <<variant, overlap, text, batchSize, pdfFiles, pos, cur, records, failedFiles,
                 remainingFiles, upi, posted>>

failedMoveOk(r) ==
  failedMove(r, TRUE)

failedMoveFail(r) ==
  failedMove(r, FALSE)

\* (a batchUpload whose loop ends at the first failed POST)
batchUploadHalting(r, ok) ==
  /\ pc[r] = "upload"
  /\ UsesBatchUpload(variant)
  /\ LET i == upi[r]
         batch == SubSeq(records[r], i + 1, Min(i + batchSize, Len(records[r])))
     IN /\ posted' = [posted EXCEPT ![r] = Append(@, [i |-> i, batch |-> batch, ok |-> ok])]
        /\ upi' = [upi EXCEPT ![r] = i + batchSize]
        /\ Goto(r, IF ok /\ i + batchSize < Len(records[r]) THEN "upload"
                   ELSE afterUpload(variant))
  /\ UNCHANGED <<variant, overlap, text, loc, batchSize, pdfFiles, pos, cur, records,
                 failedFiles, fpos, remainingFiles, renames>>

\* (a batchUpload that puts the files of a failed batch back in pdf_files/)
batchUploadRequeue(r, ok) ==
  /\ pc[r] = "upload"
  /\ UsesBatchUpload(variant)
  /\ LET i == upi[r]
         batch == SubSeq(records[r], i + 1, Min(i + batchSize, Len(records[r])))
     IN /\ posted' = [posted EXCEPT ![r] = Append(@, [i |-> i, batch |-> batch, ok |-> ok])]
        /\ upi' = [upi EXCEPT ![r] = i + batchSize]
        /\ loc' = [f \in DOMAIN loc |->
                    IF ~ok /\ \E m \in DOMAIN batch : batch[m].file = f
                    THEN "incoming" ELSE loc[f]]
        /\ Goto(r, IF i + batchSize < Len(records[r]) THEN "upload" ELSE afterUpload(variant))
  /\ UNCHANGED <<variant, overlap, text, batchSize, pdfFiles, pos, cur, records,
                 failedFiles, fpos, remainingFiles, renames>>

\* one iteration of the loop of batchUpload: the POST succeeds or fails (the
\* error is caught and logged)
batchUpload(r, ok) ==
  /\ pc[r] = "upload"
  /\ UsesBatchUpload(variant)
  /\ LET i == upi[r]
         batch == SubSeq(records[r], i + 1, Min(i + batchSize, Len(records[r])))
     IN /\ posted' = [posted EXCEPT ![r] = Append(@, [i |-> i, batch |-> batch, ok |-> ok])]
        /\ upi' = [upi EXCEPT ![r] = i + batchSize]
        /\ Goto(r, IF i + batchSize < Len(records[r]) THEN "upload" ELSE afterUpload(variant))
  /\ UNCHANGED <<variant, overlap, text, loc, batchSize, pdfFiles, pos, cur, records,
                 failedFiles, fpos, remainingFiles, renames>>

batchUploadOk(r) ==
  batchUpload(r, TRUE)

batchUploadFail(r) ==
  batchUpload(r, FALSE)

\* bulkUpload: one POST with all the records
bulkUpload(r, ok) ==
  /\ pc[r] = "upload"
  /\ ~UsesBatchUpload(variant)
  /\ posted' = [posted EXCEPT ![r] = Append(@, [i |-> 0, batch |-> records[r], ok |-> ok])]
  /\ Goto(r, afterUpload(variant))
  /\ UNCHANGED <<variant, overlap, text, loc, batchSize, pdfFiles, pos, cur, records,
                 failedFiles, fpos, remainingFiles, upi, renames>>

bulkUploadOk(r) ==
  bulkUpload(r, TRUE)

bulkUploadFail(r) ==
  bulkUpload(r, FALSE)

\* moveFailedFiles: the listing of what is still in pdf_files/
moveFailedFilesScan(r) ==
  /\ pc[r] = "sweep"
  /\ remainingFiles' = [remainingFiles EXCEPT ![r] = Listing(Incoming)]
  /\ pc' = [pc EXCEPT ![r] = IF Incoming # {} THEN "sweepmove" ELSE "done"]
  /\ fpos' = [fpos EXCEPT ![r] = 1]
  /\ UNCHANGED <<variant, overlap, text, loc, batchSize, pdfFiles, pos, cur, records,
                 failedFiles, upi, posted, renames, err>>

\* moveFailedFiles: its readdirSync throws, and the catch of main logs it
moveFailedFilesScanFail(r) ==
  /\ pc[r] = "sweep"
  /\ pc' = [pc EXCEPT ![r] = "done"]
  /\ err' = [err EXCEPT ![r] = "sweepscan"]
  /\ UNCHANGED <<variant, overlap, text, loc, batchSize, pdfFiles, pos, cur, records,
                 failedFiles, fpos, remainingFiles, upi, posted, renames>>

\* moveFailedFiles: one iteration of its loop
moveFailedFilesMove(r, ok) ==
  /\ pc[r] = "sweepmove"
  /\ renameSync(r, remainingFiles[r][fpos[r]], "failed", ok)
  /\ fpos' = [fpos EXCEPT ![r] = @ + 1]
  /\ pc' = [pc EXCEPT ![r] = IF fpos[r] < Len(remainingFiles[r]) THEN "sweepmove" ELSE "done"]
  /\ UNCHANGED <<variant, overlap, text, batchSize, pdfFiles, pos, cur, records, failedFiles,
                 remainingFiles, upi, posted, err>>

moveFailedFilesMoveOk(r) ==
  moveFailedFilesMove(r, TRUE)

moveFailedFilesMoveFail(r) ==
  moveFailedFilesMove(r, FALSE)

\* every step of main but its start
Step(r) ==
  \/ loopExtractFail(r)
  \/ loopParseInvalid(r)
  \/ loopParseValid(r)
  \/ attachFail(r)
  \/ attachOk(r)
  \/ processedMoveOk(r)
  \/ processedMoveFail(r)
  \/ failedMoveOk(r)
  \/ failedMoveFail(r)
  \/ batchUploadOk(r)
  \/ batchUploadFail(r)
  \/ bulkUploadOk(r)
  \/ bulkUploadFail(r)
  \/ moveFailedFilesScan(r)
  \/ moveFailedFilesScanFail(r)
  \/ moveFailedFilesMoveOk(r)
  \/ moveFailedFilesMoveFail(r)

\* a run starts when the runs before it have ended: the script is invoked
\* again and again, never overlapping
InTurn(r) ==
  \A q \in Runs : q < r => pc[q] = "done"

Next ==
  \E r \in Runs :
    \/ InTurn(r) /\ mainScan(r)
    \/ InTurn(r) /\ mainScanFail(r)
    \/ Step(r)

Spec ==
  Init /\ [][Next]_vars

\* the process is stopped while main waits at one of its suspension points
\* (the await of a file read or of a POST) or between two of its synchronous
\* calls; nothing is undone and nothing more is done
interrupt(r) ==
  /\ pc[r] \notin {"idle", "done"}
  /\ pc' = [pc EXCEPT ![r] = "done"]
  /\ err' = [err EXCEPT ![r] = "interrupted"]
  /\ cur' = [cur EXCEPT ![r] = NullRecord]
  /\ UNCHANGED <<variant, overlap, text, loc, batchSize, pdfFiles, pos, records, failedFiles,
                 fpos, remainingFiles, upi, posted, renames>>

\* the documents the runs that overlap or are interrupted are given
ConcurrentTexts ==
  {NoText, DocFull, DocNoFax}

InitC ==
  /\ variant \in Variants
  /\ text \in [Files -> ConcurrentTexts]
  /\ loc = [f \in Files |-> "incoming"]
  /\ batchSize = DefaultBatchSize
  /\ InitRun

\* two invocations of the script that may overlap
NextC ==
  \E r \in Runs :
    \/ mainScan(r)
    \/ mainScanFail(r)
    \/ Step(r)

SpecC ==
  InitC /\ [][NextC]_vars

\* a first invocation that may be interrupted, then a second one
NextI ==
  \/ Next
  \/ interrupt(1)

SpecI ==
  InitC /\ [][NextI]_vars

\* ------------------------------------------------- the uploader on its own
\* the lengths of the records array the uploader is given
RecordCounts ==
  (0..MaxRecords) \cup {DefaultBatchSize + 1}

\* the batch sizes batchUpload is called with
BatchSizes ==
  (1..MaxBatchSize) \cup {DefaultBatchSize}

\* main after prepareRecordsForUpload returned n records, every file renamed
\* into processed/; batchUpload is given any batch size, bulkUpload has none
InitB ==
  /\ variant \in Variants
  /\ \E n \in RecordCounts : \E b \in BatchSizes :
       /\ b = DefaultBatchSize \/ (UsesBatchUpload(variant) /\ n <= MaxRecords)
       /\ batchSize = b
       /\ text = [f \in 1..n |-> DocFull]
       /\ loc = [f \in 1..n |-> "processed"]
       /\ pdfFiles = [r \in Runs |-> IF r = 1 THEN [k \in 1..n |-> k] ELSE <<>>]
       /\ pos = [r \in Runs |-> IF r = 1 THEN n + 1 ELSE 1]
       /\ records = [r \in Runs |->
            IF r = 1
            THEN [k \in 1..n |-> [file |-> k, rec |-> parsePdfText(variant, DocFull, <<8, 0, 0>>)]]
            ELSE <<>>]
       /\ renames = {[run |-> 1, file |-> f, to |-> "processed", ok |-> TRUE] : f \in 1..n}
       /\ pc = [r \in Runs |-> IF r = 1 THEN afterPrepare(variant, [k \in 1..n |-> k]) ELSE "idle"]
       /\ err = [r \in Runs |->
            IF r = 1 /\ n = 0 /\ afterUpload(variant) = "done"
            THEN errAfterUpload(variant) ELSE "none"]
  /\ cur = [r \in Runs |-> NullRecord]
  /\ failedFiles = [r \in Runs |-> <<>>]
  /\ fpos = [r \in Runs |-> 1]
  /\ remainingFiles = [r \in Runs |-> <<>>]
  /\ upi = [r \in Runs |-> 0]
  /\ posted = [r \in Runs |-> <<>>]
  /\ overlap = FALSE

NextB ==
  \/ batchUploadOk(1)
  \/ batchUploadFail(1)
  \/ bulkUploadOk(1)
  \/ bulkUploadFail(1)

SpecB ==
  InitB /\ [][NextB]_vars

\* ------------------------------------------ one run with small batch sizes
\* one file more than in the other runs, so that a file without a record
\* can lie between two files with one
OrderFiles == 1..(MaxFiles + 1)

\* main with batchUpload given any batch size
InitO ==
  /\ variant \in Variants
  /\ text \in [OrderFiles -> ConcurrentTexts]
  /\ loc = [f \in OrderFiles |-> "incoming"]
  /\ batchSize \in BatchSizes
  /\ InitRun

NextO ==
  \/ mainScan(1)
  \/ mainScanFail(1)
  \/ Step(1)

SpecO ==
  InitO /\ [][NextO]_vars

\* ---------------------------------------------------- the parser on its own
\* the digits left of a labelled number by replace(/\D/g, '')
DigitStrings ==
  UNION {[1..n -> {"1", "2"}] : n \in 0..MaxDigits}

\* documents that differ in their labelled number
FaxDocs ==
  {[DocFull EXCEPT !.fax = <<label, d>>] : label \in {"Fax:", "To:"}, d \in DigitStrings}

\* the years of the dates the parser is given (the patterns take any four
\* digits): the years 0000 and 0001, a century year that is not a leap year,
\* one that is, a common year and a leap year
SampleYears ==
  {0, 1, 1900, 2000, 2023, 2024}

\* every date of the sample years, as <<month, day, year>>
SampleDates ==
  {<<m, d, y>> : m \in 1..12, d \in 1..31, y \in SampleYears} \ 
    {x \in (1..12) \X (29..31) \X SampleYears : x[2] > DaysInMonth(x[3], x[1])}

\* documents that differ in their exam date
ExamDocs ==
  {[DocFull EXCEPT !.exam = x] : x \in SampleDates}

\* the timestamps M/D/YYYY H:MM AM and M/D/YYYY H:MM PM of three days, for
\* every hour of the 12-hour clock
SampleStamps ==
  {<<x[1], x[2], x[3], h, m, p>> :
     x \in {<<3, 15, 2024>>, <<3, 1, 2024>>, <<1, 1, 2024>>},
     h \in 1..12, m \in {0, 59}, p \in {"AM", "PM"}}

\* documents that differ in their timestamp
StampDocs ==
  {[DocFull EXCEPT !.stamp = x] : x \in SampleStamps}

\* documents with and without a "PHYSICIAN INFORMATION ... MD" line and a
\* "PHYSICIAN NAME" label
SenderDocs ==
  {[DocFull EXCEPT !.physInfo = a, !.physName = b] :
     a \in {Null, <<"JOHN SMITH MD">>}, b \in {Null, <<"JANE DOE">>}}

\* the documents the parser is given
ParseDocs ==
  FaxDocs \cup ExamDocs \cup StampDocs \cup SenderDocs

\* main is started with one readable document in pdf_files/
InitP ==
  /\ variant \in Variants
  /\ text \in [{1} -> ParseDocs]
  /\ loc = [f \in {1} |-> "incoming"]
  /\ batchSize = DefaultBatchSize
  /\ InitRun

\* the scan, then extractPdfText and parsePdfText for the document
NextP ==
  \/ mainScan(1)
  \/ loopParseInvalid(1)
  \/ loopParseValid(1)

SpecP ==
  InitP /\ [][NextP]_vars

\* ------------------------------------------------------- words of the claims
Range(q) ==
  {q[k] : k \in DOMAIN q}

\* run r has ended
Done(r) ==
  pc[r] = "done"

\* run r has ended and no later run has started: the state "after run r"
AfterRun(r) ==
  Done(r) /\ \A q \in Runs : q > r => pc[q] = "idle"

\* run r went past its directory scan
Scanned(r) ==
  pc[r] # "idle" /\ err[r] # "scan"

\* the files run r found in pdf_files/ when it started
FoundBy(r) ==
  Range(pdfFiles[r])

\* the renameSync calls run r made for file f
RenamesOf(r, f) ==
  {m \in renames : m.run = r /\ m.file = f}

\* the files whose record run r pushed on records
RecordFiles(r) ==
  {records[r][k].file : k \in DOMAIN records[r]}

\* the files whose record run r put in a POST request
PostedFiles(r) ==
  UNION {{posted[r][j].batch[m].file : m \in DOMAIN posted[r][j].batch} : j \in DOMAIN posted[r]}

\* the document of f gives no text, or parsePdfText rejects it
FailsExtractionOrParse(f) ==
  \/ ~text[f].pdf
  \/ \A rnd \in RandomTimes : parsePdfText(variant, text[f], rnd) = NullRecord

\* why a file may still be in pdf_files/ after run r: its rename threw, the
\* run was cut short by an uncaught error, or the script has no failed folder
\* and the file gave no record
LeftBehind(r, f) ==
  \/ \E m \in RenamesOf(r, f) : ~m.ok
  \/ err[r] \in {"attach", "sweepscan"}
  \/ variant = "ReceivedNoFailed" /\ f \notin RecordFiles(r)

C3_RelocatedOnceToItsOutcome ==
  \A r \in Runs : \A f \in FoundBy(r) :
    /\ Cardinality(RenamesOf(r, f)) <= 1
    /\ \A m \in RenamesOf(r, f) :
         m.to = IF FailsExtractionOrParse(f) THEN "failed" ELSE "processed"

\* ---------------------------------------------------------------------- C4
\* a required field of the record object is null
HasNullField(rec) ==
  rec.createdAt = Null \/ rec.dyn = Null \/ rec.sender = Null

\* C4: every record that parsePdfText returns, that is pushed on records or
\* that is put in a POST request has createdAt, the extracted phone field and
\* sender non-null; and a document for which one of them is null is rejected:
\* parsePdfText returns null and no record of that file is ever posted.
C4_ValidIffNoNullField ==
  /\ \A r \in Runs :
       /\ cur[r] # NullRecord => ~HasNullField(cur[r])
       /\ \A k \in DOMAIN records[r] : ~HasNullField(records[r][k].rec)
       /\ \A j \in DOMAIN posted[r] : \A m \in DOMAIN posted[r][j].batch :
            ~HasNullField(posted[r][j].batch[m].rec)
  /\ \A f \in DOMAIN text : \A rnd \in RandomTimes :
       HasNullField(candidate(variant, text[f], rnd)) =>
         /\ \A r \in Runs : f \notin RecordFiles(r) /\ f \notin PostedFiles(r)
         /\ parsePdfText(variant, text[f], rnd) = NullRecord

\* a run posted a record while another readable document it found had a null
\* field
C4_Witness ==
  \E r \in Runs : Done(r) /\ posted[r] # <<>> /\
    \E f \in FoundBy(r) : \E rnd \in RandomTimes :
      text[f].pdf /\ HasNullField(candidate(variant, text[f], rnd))

\* ---------------------------------------------------------------------- C5
Ceil(n, b) ==
  (n + b - 1) \div b

\* the uploader of run r has returned
UploadReturned(r) ==
  pc[r] \in {"sweep", "sweepmove", "done"} /\ err[r] \notin {"scan", "attach"}

\* the records of the POST requests q, in the order they were sent
RECURSIVE Concat(_)
Concat(q) ==
  IF q = <<>> THEN <<>> ELSE Head(q).batch \o Concat(Tail(q))

\* C5: for N records and batch size B the uploader submits ceil(N/B) batches,
\* each of at most B records, and the batches in the order they were
\* submitted add up to the records array.
C5_BatchPartition ==
  \A r \in Runs : UploadReturned(r) =>
    /\ Len(posted[r]) = Ceil(Len(records[r]), batchSize)
    /\ \A j \in DOMAIN posted[r] : Len(posted[r][j].batch) <= batchSize
    /\ Concat(posted[r]) = records[r]

\* ---------------------------------------------------------------------- C6
\* the POST requests of run r that carry the k-th record
PostsOf(r, k) ==
  {j \in DOMAIN posted[r] : \E m \in DOMAIN posted[r][j].batch :
     posted[r][j].batch[m] = records[r][k]}

\* C6: whatever the outcomes of the POSTs, no batch is sent twice (no record
\* is in two requests, no two requests start at the same offset), and once
\* the uploader has returned every batch has been sent exactly once: a failed
\* POST does not keep the later batches from being sent.
C6_EveryBatchOnce ==
  \A r \in Runs :
    /\ \A k \in DOMAIN records[r] : Cardinality(PostsOf(r, k)) <= 1
    /\ \A j, m \in DOMAIN posted[r] : j # m => posted[r][j].i # posted[r][m].i
    /\ UploadReturned(r) => \A k \in DOMAIN records[r] : Cardinality(PostsOf(r, k)) = 1

\* the uploader returned after a POST failed and a later batch was still sent
C6_Witness ==
  \E r \in Runs : UploadReturned(r) /\
    \E j, m \in DOMAIN posted[r] : j < m /\ ~posted[r][j].ok

\* ---------------------------------------------------------------------- C7
\* the files run r moved out of pdf_files/
RelocatedBy(r) ==
  {m.file : m \in {x \in renames : x.run = r /\ x.ok}}

\* the renameSync calls of run r
RenamesBy(r) ==
  {m \in renames : m.run = r}

\* C7 as stated: a second run, right after a first one and with no file
\* added, finds no file, relocates nothing and submits no batch.
C7_SecondRunNoOp ==
  Done(1) /\ Scanned(1) /\ Done(2) /\ Scanned(2) =>
    pdfFiles[2] = <<>> /\ RenamesBy(2) = {} /\ posted[2] = <<>>

\* C7 amended: the second run finds exactly the files the first run left in
\* the incoming directory; a file the first run relocated is not found, parsed,
\* relocated or submitted again; and when the first run left no file, the
\* second run relocates nothing and submits no batch.
C7_SecondRunOnlyLeftovers ==
  /\ Scanned(2) => FoundBy(2) = (DOMAIN loc) \ RelocatedBy(1)
  /\ \A f \in RelocatedBy(1) :
       /\ f \notin FoundBy(2)
       /\ RenamesOf(2, f) = {}
       /\ f \notin RecordFiles(2) /\ f \notin PostedFiles(2)
  /\ FoundBy(2) = {} =>
       RenamesBy(2) = {} /\ records[2] = <<>> /\ posted[2] = <<>>

\* the first run posted records and relocated every file, and the second run
\* ended without finding a file
C7_Witness ==
  /\ Done(1) /\ posted[1] # <<>> /\ RelocatedBy(1) = FoundBy(1) /\ FoundBy(1) # {}
  /\ Done(2) /\ err[2] # "scan" /\ pdfFiles[2] = <<>>

\* ---------------------------------------------------------------------- C8
\* C8: a file whose rename threw in the first run is left in the incoming
\* directory by that run, and the next run's scan finds the file again.
C8_FailedRenameRediscovered ==
  \A m \in RenamesBy(1) : ~m.ok =>
    /\ AfterRun(1) => loc[m.file] = "incoming"
    /\ Scanned(2) => m.file \in FoundBy(2)

\* ---------------------------------------------------------------------- C9
\* C9: unless the directory scan failed, a run that has ended went through
\* every file of the listing, attempted the rename of every file on
\* failedFiles and posted every record, whatever failed on the way.
C9_NothingAbortsTheRun ==
  \A r \in Runs : Done(r) /\ Scanned(r) =>
    /\ pos[r] > Len(pdfFiles[r])
    /\ \A k \in DOMAIN failedFiles[r] :
         \E m \in RenamesOf(r, failedFiles[r][k]) : m.to = "failed"
    /\ \A k \in DOMAIN records[r] : PostsOf(r, k) # {}

\* --------------------------------------------------------------------- C10
\* C10 as stated: of two runs that overlap, no file has a record submitted by
\* both and no file is relocated by both.
C10_NoFileClaimedTwice ==
  overlap => \A f \in DOMAIN loc :
    /\ ~(f \in PostedFiles(1) /\ f \in PostedFiles(2))
    /\ ~(f \in RelocatedBy(1) /\ f \in RelocatedBy(2))

\* C10 amended: of two runs that overlap, no file is relocated by both: at
\* most one rename of a file succeeds, and the file is where that rename put
\* it; the two runs may both parse the file and both submit its record.
C10_RelocatedByOneRun ==
  \A f \in DOMAIN loc :
    /\ ~(f \in RelocatedBy(1) /\ f \in RelocatedBy(2))
    /\ Cardinality({m \in renames : m.file = f /\ m.ok}) <= 1
    /\ \A m \in renames : m.file = f /\ m.ok => loc[f] = m.to
    /\ loc[f] # "incoming" => \E m \in renames : m.file = f /\ m.ok

\* both runs called renameSync for the same file: one rename moved it, the
\* other threw
C10_Witness ==
  overlap /\ \E m, n \in renames : m.file = n.file /\ m.run # n.run /\ m.ok /\ ~n.ok

\* --------------------------------------------------------------------- C11
\* run r was interrupted
Interrupted(r) ==
  err[r] = "interrupted"

\* the files run r parsed into a record, renamed or put in a POST request
TouchedBy(r) ==
  RecordFiles(r) \cup PostedFiles(r) \cup {m.file : m \in RenamesBy(r)}

\* C11: when the first run is interrupted, every file is in exactly one of
\* incoming, processed and failed (where its one successful rename put it,
\* or still in incoming), the files the run had not come to are untouched in
\* incoming, and the next run finds exactly the files still in incoming,
\* touches no other file and, unless an uncaught error ends it, goes through
\* all of them.
C11_InterruptedRunResumes ==
  Interrupted(1) =>
    /\ \A f \in DOMAIN loc :
         /\ Cardinality({m \in renames : m.file = f /\ m.ok}) <= 1
         /\ \A m \in renames : m.file = f /\ m.ok => loc[f] = m.to
         /\ loc[f] \in {"processed", "failed"} => \E m \in renames : m.file = f /\ m.ok
    /\ AfterRun(1) =>
         \A f \in FoundBy(1) : f \notin TouchedBy(1) => loc[f] = "incoming"
    /\ Scanned(2) =>
         /\ FoundBy(2) = (DOMAIN loc) \ RelocatedBy(1)
         /\ TouchedBy(2) \subseteq FoundBy(2)
         /\ Done(2) /\ err[2] = "none" => pos[2] > Len(pdfFiles[2])

\* the first run was interrupted after it had relocated a file, and the
\* second run relocated a file that the first had not come to
C11_Witness ==
  /\ Interrupted(1) /\ RelocatedBy(1) # {}
  /\ Done(2) /\ err[2] = "none"
  /\ \E f \in FoundBy(2) : f \notin TouchedBy(1) /\ f \in RelocatedBy(2)

\* --------------------------------------------------------------------- C12
\* run r ended without a rename that threw and without an uncaught error
\* other than the one of its last statement
RanClean(r) ==
  /\ AfterRun(r) /\ Scanned(r)
  /\ err[r] \in {"none", "ReferenceError"}
  /\ \A m \in RenamesBy(r) : m.ok

\* C12: in every script, a readable document with no fax-number pattern is
\* rejected by parsePdfText (null), no record of it is kept, and after a run
\* in which nothing threw the file is in the failed folder.
C12_NoFaxLandsInFailed ==
  \A f \in DOMAIN loc : text[f].pdf /\ text[f].fax = Null =>
    /\ \A rnd \in RandomTimes : parsePdfText(variant, text[f], rnd) = NullRecord
    /\ \A r \in Runs :
         /\ f \notin RecordFiles(r)
         /\ RanClean(r) /\ f \in FoundBy(r) => loc[f] = "failed"

\* --------------------------------------------------------------------- C13
\* the calendar day before month/day/year, as <<year, month, day>>
PreviousDay(month, day, year) ==
  IF day > 1 THEN <<year, month, day - 1>>
  ELSE IF month > 1 THEN <<year, month - 1, DaysInMonth(year, month - 1)>>
  ELSE <<year - 1, 12, 31>>

\* the document has "Exam Date: M/D/YYYY" and "Fax:" with a 10-digit number
HasExamAndFax10(t) ==
  t.pdf /\ t.exam # Null /\ t.fax # Null /\ t.fax[1] = "Fax:" /\ Len(t.fax[2]) = 10

\* the number d in the form (XXX) XXX - XXXX
Formatted(d) ==
  <<"(", d[1], d[2], d[3], ")", " ", d[4], d[5], d[6], " ", "-", " ", d[7], d[8], d[9], d[10]>>

\* rec is the record of the scenario for the document t
ScenarioRecord(rec, t) ==
  /\ rec # NullRecord
  /\ rec.dyn = Formatted(t.fax[2])
  /\ SubSeq(rec.createdAt, 1, 3) = PreviousDay(t.exam[1], t.exam[2], t.exam[3])
  /\ rec.sender = <<"RIGHT CHOICE MEDICAL SUPPLY">>
  /\ rec.fixed = <<"(207) 261 - 0798">>

\* the file that run r is at
Current(r) ==
  pdfFiles[r][pos[r]]

\* parsePdfText has just returned a record to run r
Parsed(r) ==
  pc[r] = "attach"

\* run r went past file f without an uncaught error and kept no record of it
Rejected(r, f) ==
  /\ \E k \in 1..(pos[r] - 1) : k <= Len(pdfFiles[r]) /\ pdfFiles[r][k] = f
  /\ f \notin RecordFiles(r)
  /\ err[r] \in {"none", "ReferenceError"}

\* C13: in the Sent date-only script a document with an exam date and a
\* 10-digit fax number is not rejected; whatever Math.random() draws, its
\* record has from as (XXX) XXX - XXXX, the day before the exam date, a time
\* of day from 08:00:00 to 16:59:59, the fixed sender and the fixed to; and
\* after a run in which nothing threw the file is in processed/.
C13_SentDateOnlyScenario ==
  variant = "SentDateOnly" =>
    \A f \in DOMAIN loc : HasExamAndFax10(text[f]) =>
      \A r \in Runs :
        /\ ~Rejected(r, f)
        /\ Parsed(r) /\ Current(r) = f =>
             /\ ScenarioRecord(cur[r], text[f])
             /\ cur[r].createdAt[4] \in 8..16
             /\ cur[r].createdAt[5] \in 0..59
             /\ cur[r].createdAt[6] \in 0..59
        /\ \A k \in DOMAIN records[r] : records[r][k].file = f =>
             ScenarioRecord(records[r][k].rec, text[f])
        /\ RanClean(r) /\ f \in FoundBy(r) => loc[f] = "processed"

\* --------------------------------------------------------------------- C14
\* the digits of the labelled number of document t
DigitsOf(t) ==
  IF t.fax = Null THEN <<>> ELSE t.fax[2]

\* C14: for every digit string d, formatPhoneNumber(d) is "(" d[0:3] ") "
\* d[3:6] " - " d[6:10] when d has exactly 10 digits and d itself otherwise;
\* and the phone field of a record that parsePdfText returns is that value.
C14_FormatPhoneNumber ==
  \A f \in DOMAIN text :
    LET d == DigitsOf(text[f])
    IN /\ formatPhoneNumber(d) = IF Len(d) = 10 THEN Formatted(d) ELSE d
       /\ \A r \in Runs : pc[r] = "attach" /\ pdfFiles[r][pos[r]] = f =>
            cur[r].dyn = IF Len(d) = 10 THEN Formatted(d) ELSE d

\* parsePdfText returned a record whose phone field was formatted from a
\* 10-digit number with differing digits
C14_Witness ==
  /\ pc[1] = "attach"
  /\ LET d == DigitsOf(text[pdfFiles[1][pos[1]]])
     IN Len(d) = 10 /\ d[3] # d[4] /\ d[6] # d[7] /\ cur[1].dyn = Formatted(d)

\* --------------------------------------------------------------------- C15
\* the files of the records q, in order
FilesOf(q) ==
  [k \in DOMAIN q |-> q[k].file]

\* the listing q restricted to the files of S, in order
RECURSIVE Restrict(_, _)
Restrict(q, S) ==
  IF q = <<>> THEN <<>>
  ELSE (IF Head(q) \in S THEN <<Head(q)>> ELSE <<>>) \o Restrict(Tail(q), S)

\* C15: the records of the POST requests, in the order the requests were
\* sent, are the records array from its start (all of it once the uploader
\* has returned), and the records array has the order of the directory
\* listing restricted to the files that gave a record.
C15_BatchOrderIsListingOrder ==
  \A r \in Runs :
    /\ Len(Concat(posted[r])) <= Len(records[r])
    /\ Concat(posted[r]) = SubSeq(records[r], 1, Len(Concat(posted[r])))
    /\ UploadReturned(r) => Concat(posted[r]) = records[r]
    /\ FilesOf(records[r]) = Restrict(pdfFiles[r], RecordFiles(r))

\* the uploader returned after it sent the records of two files in two
\* requests, and a file between them in the listing gave no record
C15_Witness ==
  /\ UploadReturned(1) /\ Len(posted[1]) >= 2
  /\ \E i, j, k \in DOMAIN pdfFiles[1] :
       /\ i < j /\ j < k
       /\ pdfFiles[1][i] \in PostedFiles(1) /\ pdfFiles[1][k] \in PostedFiles(1)
       /\ pdfFiles[1][j] \notin RecordFiles(1)

\* --------------------------------------------------------------------- C16
\* C16: in the Sent date-only script, for every exam date M/D/YYYY that is a
\* date of the calendar, the date of createdAt is the day before: D-1 in the
\* same month when D > 1, else the last day of the month before (leap years
\* respected), and December 31 of the year before when M = 1.
C16_DateMinusOneDay ==
  variant = "SentDateOnly" =>
    \A r \in Runs : Parsed(r) =>
      LET x == text[Current(r)].exam
      IN SubSeq(cur[r].createdAt, 1, 3) = PreviousDay(x[1], x[2], x[3])

\* --------------------------------------------------------------------- C17
\* the hour of the 24-hour clock for hour h of the 12-hour clock
Hour24(h, period) ==
  CASE h = 12 /\ period = "AM" -> 0
    [] h = 12 /\ period = "PM" -> 12
    [] h # 12 /\ period = "PM" -> h + 12
    [] OTHER -> h

\* C17: in every script that reads the timestamp M/D/YYYY H:MM AM or PM
\* (all but the Sent date-only script), a text with such a timestamp, H in
\* 1..12, gets a createdAt (it is rejected only for its phone number or its
\* sender), and in its record the hour is the 24-hour conversion of H, the
\* minute is MM and the seconds are 00.
C17_TwentyFourHourConversion ==
  variant # "SentDateOnly" =>
    \A r \in Runs : \A f \in FoundBy(r) : text[f].pdf /\ text[f].stamp # Null =>
      LET x == text[f].stamp
      IN /\ Rejected(r, f) =>
              ~Truthy(dynamicField(variant, text[f])) \/ ~Truthy(sender(variant, text[f]))
         /\ Parsed(r) /\ Current(r) = f =>
              /\ cur[r].createdAt # Null
              /\ cur[r].createdAt[4] = Hour24(x[4], x[6])
              /\ cur[r].createdAt[5] = x[5]
              /\ cur[r].createdAt[6] = 0

\* --------------------------------------------------------------------- C18
\* the script's phone pattern matches in document t
LabelledMatch(v, t) ==
  t.pdf /\ t.fax # Null /\ (v \in {"ReceivedList", "ReceivedSweep"} \/ t.fax[1] = "Fax:")

\* C18: when the phone pattern matches, the phone field is non-null if and
\* only if exactly 10 digits are left of the match, and then it has the form
\* (XXX) XXX - XXXX; with any other number of digits the field is null and
\* the document gives no record.
C18_PhoneNonNullIffTenDigits ==
  \A f \in DOMAIN text : LabelledMatch(variant, text[f]) =>
    LET d == DigitsOf(text[f])
    IN /\ Len(d) = 10 => dynamicField(variant, text[f]) = Formatted(d)
       /\ Len(d) # 10 =>
            \A r \in Runs :
              /\ pc[r] = "attach" => pdfFiles[r][pos[r]] # f
              /\ f \notin RecordFiles(r) /\ f \notin PostedFiles(r)

\* --------------------------------------------------------------------- C19
\* the scripts that extract the sender from the text
ExtractsSender(v) ==
  v \in {"ReceivedList", "ReceivedSweep", "ReceivedNoFailed"}

\* the sender of the two-step chain for document t
ChainSender(t) ==
  IF t.physInfo # Null THEN t.physInfo
  ELSE IF t.physName # Null THEN t.physName
  ELSE Null

\* C19: in the scripts that extract the sender, the sender of a record that
\* parsePdfText returns is the "PHYSICIAN INFORMATION" match when there is
\* one and the "PHYSICIAN NAME" match only when there is none; a document
\* with neither is rejected, and one that is rejected has no chain sender,
\* no createdAt or no phone number.
C19_SenderChainFirstMatchWins ==
  ExtractsSender(variant) =>
    \A r \in Runs : pc[r] \in {"attach", "failed", "upload", "sweep", "done"} =>
      \A k \in 1..Min(pos[r], Len(pdfFiles[r])) :
        LET f == pdfFiles[r][k]
            t == text[f]
        IN /\ pc[r] = "attach" /\ k = pos[r] => cur[r].sender = ChainSender(t)
           /\ ChainSender(t) = Null => ~(pc[r] = "attach" /\ k = pos[r])
           /\ k < pos[r] /\ f \notin RecordFiles(r) /\ err[r] = "none" =>
                \/ ChainSender(t) = Null
                \/ \A rnd \in RandomTimes : createdAt(variant, t, rnd) = Null
                \/ ~Truthy(dynamicField(variant, t))

\* --------------------------------------------------------------------- C20
\* the sweep of run r tried to move f and the rename threw
SweepMoveFailed(r, f) ==
  \E m \in RenamesOf(r, f) : m.to = "failed" /\ ~m.ok

\* C20: in the scripts whose main ends with moveFailedFiles(), once the
\* upload step is over (posted with or without success, or skipped) and the
\* run has ended, no file is left in the incoming directory except the files
\* whose move to the failed folder threw (the directory listing of the sweep
\* did not throw).
C20_SweepEmptiesIncoming ==
  CallsMoveFailedFiles(variant) =>
    \A r \in Runs : AfterRun(r) /\ UploadReturned(r) /\ err[r] # "sweepscan" =>
      \A f \in DOMAIN loc : loc[f] = "incoming" => SweepMoveFailed(r, f)

\* --------------------------------------------------------------------- C21
\* the POST requests of run r that carry a record of file f
BatchesOf(r, f) ==
  {j \in DOMAIN posted[r] : \E m \in DOMAIN posted[r][j].batch : posted[r][j].batch[m].file = f}

\* C21: over runs that follow one another with no file added, the record of
\* a file is put in at most one POST request in total: a file whose record
\* was in a request of the first run is not found, parsed or submitted by the
\* second run, also when its rename into processed/ threw.
C21_SubmittedInAtMostOneBatch ==
  \A f \in DOMAIN loc :
    /\ Cardinality(BatchesOf(1, f)) + Cardinality(BatchesOf(2, f)) <= 1
    /\ f \in PostedFiles(1) =>
         /\ Scanned(2) => f \notin FoundBy(2)
         /\ f \notin RecordFiles(2)
         /\ f \notin PostedFiles(2)

\* --------------------------------------------------------------------- C22
\* a step of batchUpload or bulkUpload: a POST request is made
UploadStep ==
  \E r \in Runs : posted'[r] # posted[r]

\* a POST request of run r that failed carried the record of f
InFailedBatch(r, f) ==
  \E j \in BatchesOf(r, f) : ~posted[r][j].ok

\* C22: a step of batchUpload or bulkUpload, whether its POST succeeds or
\* fails, leaves every file where it is and makes no rename; and a file that
\* was renamed into processed/ is in processed/ also when the request that
\* carried its record failed.
C22_UploadKeepsFileLocations ==
  /\ [][UploadStep => loc' = loc /\ renames' = renames]_vars
  /\ [](\A r \in Runs : \A f \in DOMAIN loc :
          InFailedBatch(r, f) /\ (\E m \in RenamesOf(r, f) : m.ok /\ m.to = "processed") =>
            loc[f] = "processed")

\* the uploader returned after a POST failed; a file of that request is in
\* processed/, and another file of the run is in the failed folder
C22_Witness ==
  \E r \in Runs : UploadReturned(r) /\
    \E f, g \in FoundBy(r) :
      InFailedBatch(r, f) /\ loc[f] = "processed" /\ loc[g] = "failed"

====
